---- MODULE Spec2Model ----
(***************************************************************************)
(* A model of the riscan-pro crate (gadomski/rsp): the RiSCAN Pro project  *)
(* reader of src/project.rs (Project, ScanPosition with images, Image) and *)
(* the scan position of src/scan_position.rs (name, SOP, POP, scans).      *)
(*                                                                         *)
(* The file system and the XML documents are the environment: a path is    *)
(* the sequence of its components below the root and an XML element is a   *)
(* record of its tag, its text and its children.  Floating point numbers   *)
(* are modelled by integers, and a pixel by a pair of exact fractions.     *)
(***************************************************************************)
EXTENDS Integers, Sequences, FiniteSets, TLC

VARIABLES
    fs,         \* the file system: path -> node
    project,    \* the Project the caller holds (Option<Project>)
    op,         \* the operation that ran last
    arg,        \* its arguments
    ret,        \* what it returned
    pc,         \* position of ScanPosition::from_path: "idle" or "loop"
    fullpath,   \* ScanPosition::from_path: the canonicalized path
    path_buf,   \* ScanPosition::from_path: the candidate of this iteration
    sp          \* the scan position of scan_position.rs the caller owns

vars == <<fs, project, op, arg, ret, pc, fullpath, path_buf, sp>>

(***************************************************************************)
(* Bounds of the model.                                                    *)
(***************************************************************************)
\* the longest list of scan position elements in a project file
MaxScanPositions == 2
\* scanner-local points have natural coordinates of sum at most MaxNorm
MaxNorm == 2
\* camera-local coordinates range over -MaxCam..MaxCam
MaxCam == 1

(***************************************************************************)
(* Result<T> and Option<T>.                                                *)
(***************************************************************************)
Ok(v) == [ok |-> TRUE, val |-> v]
Err(e) == [ok |-> FALSE, err |-> e]
Some(v) == [some |-> TRUE, val |-> v]
None == [some |-> FALSE]
\* unimplemented!(): the call does not return, the thread panics
Panicked == [some |-> FALSE, panicked |-> TRUE]
IsPanic(r) == "panicked" \in DOMAIN r

\* `let v = e; F(v)`: e is evaluated once, whatever F does with v
with(e, F(_)) == CHOOSE out \in {F(v) : v \in {e}} : TRUE
\* try!(r), then F of the value: an Err is returned as it is
try(r, F(_)) == with(r, LAMBDA v : IF v.ok THEN F(v.val) ELSE v)

(***************************************************************************)
(* XML elements (xmltree::Element).                                        *)
(***************************************************************************)
NoText == [some |-> FALSE]
Element(name, text, children) == [name |-> name, text |-> text, children |-> children]
TextElement(name, t) == Element(name, Some(t), <<>>)

\* Element::get_child: the first child of that tag
get_child(element, name) ==
    with({i \in 1..Len(element.children) : element.children[i].name = name},
         LAMBDA idx : IF idx = {} THEN None
                      ELSE Some(element.children[CHOOSE i \in idx : \A j \in idx : i <= j]))

\* `name` is the sequence name.split('/') yields
RECURSIVE get_descendant(_, _)
get_descendant(element, name) ==
    IF name = <<>> THEN Ok(element)
    ELSE with(get_child(element, Head(name)), LAMBDA child :
            IF child.some THEN get_descendant(child.val, Tail(name))
            ELSE Err([kind |-> "MissingElement", name |-> Head(name)]))

get_children(element, name) ==
    try(get_descendant(element, name), LAMBDA e : Ok(e.children))

get_text(element, name) ==
    try(get_descendant(element, name), LAMBDA e :
        IF e.text.some THEN Ok(e.text.val)
        ELSE Err([kind |-> "MissingElement", name |-> name]))

(***************************************************************************)
(* HashMap<String, V> is a function on the set of its keys.                *)
(***************************************************************************)
EmptyMap == [k \in {} |-> 0]
\* HashMap::insert: a present key gets the new value
\* an insert that keeps the entry a key already has
insert_keep_first(map, k, v) ==
    [x \in DOMAIN map \cup {k} |-> IF x \in DOMAIN map THEN map[x] ELSE v]
insert(map, k, v) == [x \in DOMAIN map \cup {k} |-> IF x = k THEN v ELSE map[x]]
\* HashMap::get
get(map, k) == IF k \in DOMAIN map THEN Some(map[k]) ELSE None

\* a collect that leaves out the items that are Err
RECURSIVE collect_skipping(_, _)
collect_skipping(items, map) ==
    IF items = <<>> THEN Ok(map)
    ELSE with(Tail(items), LAMBDA rest :
            IF Head(items).ok
            THEN collect_skipping(rest, insert(map, Head(items).val[1], Head(items).val[2]))
            ELSE collect_skipping(rest, map))

\* Iterator<Item = Result<(K, V)>>::collect::<Result<HashMap>>(): the first Err
\* ends the iteration and is the result; otherwise the pairs are inserted in order
RECURSIVE collect(_, _)
collect(items, map) ==
    IF items = <<>> THEN Ok(map)
    ELSE try(Head(items), LAMBDA pair :
            with(insert(map, pair[1], pair[2]), LAMBDA inserted :
                with(Tail(items), LAMBDA rest : collect(rest, inserted))))

\* Iterator::map(f) over the children of an element, in document order
map(children, F(_)) == [i \in 1..Len(children) |-> F(children[i])]

(***************************************************************************)
(* Image and ScanPosition of project.rs.                                   *)
(***************************************************************************)
Image_from_element(element) ==
    try(get_text(element, <<"name">>), LAMBDA name : Ok([name |-> name]))

\* the closure of ScanPosition::from_element
ImagePair(child) ==
    try(Image_from_element(child), LAMBDA image : Ok(<<image.name, image>>))

ScanPosition_from_element(element) ==
    try(try(get_children(element, <<"scanposimages">>), LAMBDA children :
            with(map(children, ImagePair), LAMBDA items : collect(items, EmptyMap))),
        LAMBDA images :
            try(get_text(element, <<"name">>), LAMBDA name :
                Ok([name |-> name, images |-> images])))

\* the closure of Project::from_path
ScanPositionPair(child) ==
    try(ScanPosition_from_element(child), LAMBDA scan_position :
        Ok(<<scan_position.name, scan_position>>))

(***************************************************************************)
(* The file system.                                                        *)
(***************************************************************************)
\* what the operating system makes of a path: "." components are dropped
RECURSIVE resolve(_)
resolve(path) ==
    IF path = <<>> THEN <<>>
    ELSE IF Head(path) = "." THEN resolve(Tail(path))
    ELSE <<Head(path)>> \o resolve(Tail(path))

Dir == [kind |-> "dir"]
XmlFile(root) == [kind |-> "file", parses |-> TRUE, root |-> root]
OtherFile == [kind |-> "file", parses |-> FALSE]

\* fs::metadata
metadata(files, path) ==
    with(resolve(path), LAMBDA p :
        IF p \in DOMAIN files THEN Ok([is_dir |-> files[p].kind = "dir"])
        ELSE Err([kind |-> "Io"]))

\* File::open, then Element::parse: a directory cannot be read as a file
open_and_parse(files, path) ==
    with(resolve(path), LAMBDA p :
        IF p \notin DOMAIN files THEN Err([kind |-> "Io"])
        ELSE IF files[p].kind = "dir" THEN Err([kind |-> "Io"])
        ELSE IF ~files[p].parses THEN Err([kind |-> "XmlParse"])
        ELSE Ok(files[p].root))

\* PathBuf::push of one component
push(path, component) == Append(path, component)

(***************************************************************************)
(* Project.                                                                *)
(***************************************************************************)
\* a from_path that opens the path it is given, directory or not
Project_from_path_as_given(files, path0) ==
    try(metadata(files, path0), LAMBDA md :
        try(open_and_parse(files, path0), LAMBDA xml :
            try(try(get_children(xml, <<"scanpositions">>), LAMBDA children :
                    with(map(children, ScanPositionPair), LAMBDA items :
                        collect(items, EmptyMap))),
                LAMBDA scan_positions : Ok([scan_positions |-> scan_positions]))))

Project_from_path(files, path0) ==
    try(metadata(files, path0), LAMBDA md :
        with(IF md.is_dir THEN push(path0, "project.rsp") ELSE path0, LAMBDA path :
            try(open_and_parse(files, path), LAMBDA xml :
                try(try(get_children(xml, <<"scanpositions">>), LAMBDA children :
                        with(map(children, ScanPositionPair), LAMBDA items :
                            collect(items, EmptyMap))),
                    LAMBDA scan_positions : Ok([scan_positions |-> scan_positions])))))

Project_scan_position(self, name) == get(self.scan_positions, name)

ScanPosition_image(self, name) == get(self.images, name)

\* Option::and_then
\* an image lookup that unwraps the scan position
Project_image_unwrap(self, scan_position, image) ==
    with(get(self.scan_positions, scan_position), LAMBDA found :
        IF found.some THEN get(found.val.images, image) ELSE Panicked)

Project_image(self, scan_position, image) ==
    with(Project_scan_position(self, scan_position), LAMBDA found :
        IF found.some THEN ScanPosition_image(found.val, image) ELSE None)

(***************************************************************************)
(* The camera model of spec.md 4.2 (the body of Image::project is not in   *)
(* project.rs).  A camera-local point has integer coordinates; a pixel     *)
(* coordinate is the exact fraction <<numerator, denominator>>, with the   *)
(* common denominator z^7 of the Brown-Conrady polynomial.                 *)
(***************************************************************************)
Camera(k1, k2, k3, p1, p2) ==
    [fx |-> 1, fy |-> 1, cx |-> 1, cy |-> 1, width |-> 2, height |-> 3,
     k1 |-> k1, k2 |-> k2, k3 |-> k3, p1 |-> p1, p2 |-> p2]
Pinhole == Camera(0, 0, 0, 0, 0)
Distorted == Camera(-1, 1, 1, 1, -1)

\* the undistorted-to-pixel computation, steps 2 to 4, for z # 0
CameraModel_pixel(cam, x, y, z) ==
    LET z2 == z * z
        r2 == x * x + y * y
        radial == z2 * z2 * z2 + cam.k1 * r2 * z2 * z2 + cam.k2 * r2 * r2 * z2
                    + cam.k3 * r2 * r2 * r2
        den == z2 * z2 * z2 * z
        xd == x * radial + (2 * cam.p1 * x * y + cam.p2 * (r2 + 2 * x * x)) * z2 * z2 * z
        yd == y * radial + (cam.p1 * (r2 + 2 * y * y) + 2 * cam.p2 * x * y) * z2 * z2 * z
    IN  [u |-> <<cam.fx * xd + cam.cx * den, den>>,
         v |-> <<cam.fy * yd + cam.cy * den, den>>]

\* steps 1 and 5: the front-facing guard and the bounds guard
CameraModel_project(cam, x, y, z) ==
    IF z <= 0 THEN None
    ELSE with(CameraModel_pixel(cam, x, y, z), LAMBDA px :
            IF /\ 0 <= px.u[1] /\ px.u[1] < cam.width * px.u[2]
               /\ 0 <= px.v[1] /\ px.v[1] < cam.height * px.v[2]
            THEN Some(px) ELSE None)

\* the calibration an image is used with
camera_model(image) ==
    IF image.name = "Image001" THEN Pinhole ELSE Distorted

Image_project(self, x, y, z) == CameraModel_project(camera_model(self), x, y, z)

\* a colour lookup that passes y and z to the projection in the wrong order
Image_color_swapped(self, x, y, z) ==
    [uv |-> Image_project(self, x, z, y), color |-> Panicked]

\* Image::color: the projection step, then unimplemented!()
Image_color(self, x, y, z) ==
    [uv |-> Image_project(self, x, y, z), color |-> Panicked]

\* ScanPosition::images is unimplemented!()
ScanPosition_images(self) == Panicked

RECURSIVE color_loop(_, _, _, _)
color_loop(images, x, y, z) ==
    IF images = <<>> THEN None
    ELSE with(Image_color(Head(images), x, y, z).color, LAMBDA color :
            IF IsPanic(color) \/ color.some THEN color
            ELSE color_loop(Tail(images), x, y, z))

ScanPosition_color(self, x, y, z) ==
    with(ScanPosition_images(self), LAMBDA images :
        IF IsPanic(images) THEN images ELSE color_loop(images, x, y, z))

(***************************************************************************)
(* Paths.                                                                  *)
(***************************************************************************)
\* Path::canonicalize: the path has to exist
canonicalize(files, path) ==
    with(resolve(path), LAMBDA p :
        IF p \in DOMAIN files THEN Ok(p) ELSE Err([kind |-> "Io"]))

\* Path::strip_prefix
strip_prefix(path, base) ==
    IF Len(base) <= Len(path) /\ SubSeq(path, 1, Len(base)) = base
    THEN Ok(SubSeq(path, Len(base) + 1, Len(path)))
    ELSE Err([kind |-> "StripPrefix"])

\* PathBuf::pop: false, and no change, when the path has no parent
pop(path) ==
    IF path = <<>> THEN [popped |-> FALSE, path |-> path]
    ELSE [popped |-> TRUE, path |-> SubSeq(path, 1, Len(path) - 1)]

\* Project::path of the project opened from `path`: its directory
Project_path(files, path) ==
    IF files[resolve(path)].kind = "dir" THEN Some(path) ELSE Some(pop(path).path)

(***************************************************************************)
(* ScanPosition::from_path (scan_position.rs): one iteration of its loop.  *)
(* `path` is the argument, kept for the error values.                      *)
(***************************************************************************)
from_path_found(files, path, full, buf, proj) ==
    with(push(Project_path(files, buf).val, "SCANS"), LAMBDA scans_path :
        with(strip_prefix(full, scans_path), LAMBDA subpath :
            IF ~subpath.ok THEN Err([kind |-> "NotAScanPosition", path |-> path])
            ELSE IF subpath.val # <<>>
            THEN with(Project_scan_position(proj, Head(subpath.val)), LAMBDA scan_position :
                    IF scan_position.some THEN Ok(scan_position.val)
                    ELSE Err([kind |-> "NotAScanPosition", path |-> path]))
            ELSE Err([kind |-> "NotAScanPosition", path |-> path])))

\* an iteration that does not look at what pop() returned
from_path_iteration_no_stop(files, path, full, buf) ==
    with(Project_from_path(files, buf), LAMBDA proj :
        IF proj.ok
        THEN [returns |-> TRUE, ret |-> from_path_found(files, path, full, buf, proj.val)]
        ELSE [returns |-> FALSE, path_buf |-> pop(buf).path])

from_path_iteration(files, path, full, buf) ==
    with(Project_from_path(files, buf), LAMBDA proj :
        IF proj.ok
        THEN [returns |-> TRUE, ret |-> from_path_found(files, path, full, buf, proj.val)]
        ELSE IF ~pop(buf).popped
        THEN [returns |-> TRUE, ret |-> Err([kind |-> "NotAProject", path |-> path])]
        ELSE [returns |-> FALSE, path_buf |-> pop(buf).path])

(***************************************************************************)
(* Matrix and Vector (nalgebra 4x4 and 4x1) over the integers.             *)
(***************************************************************************)
Dot(a, b) == a[1] * b[1] + a[2] * b[2] + a[3] * b[3] + a[4] * b[4]
Column(m, j) == <<m[1][j], m[2][j], m[3][j], m[4][j]>>
\* Matrix * Vector
MatVec(m, v) == <<Dot(m[1], v), Dot(m[2], v), Dot(m[3], v), Dot(m[4], v)>>
\* Matrix * Matrix
Row(a, b, i) ==
    <<Dot(a[i], Column(b, 1)), Dot(a[i], Column(b, 2)),
      Dot(a[i], Column(b, 3)), Dot(a[i], Column(b, 4))>>
MatMul(a, b) == <<Row(a, b, 1), Row(a, b, 2), Row(a, b, 3), Row(a, b, 4)>>

\* Matrix::new_identity(4)
new_identity == <<<<1, 0, 0, 0>>, <<0, 1, 0, 0>>, <<0, 0, 1, 0>>, <<0, 0, 0, 1>>>>
\* the matrix of the set_sop and set_pop examples: a translation
Translation == <<<<1, 0, 0, 1>>, <<0, 1, 0, 2>>, <<0, 0, 1, 3>>, <<0, 0, 0, 1>>>>
\* a quarter turn about the z axis
Rotation == <<<<0, -1, 0, 0>>, <<1, 0, 0, 0>>, <<0, 0, 1, 0>>, <<0, 0, 0, 1>>>>
\* not affine: the bottom row is not (0, 0, 0, 1)
Projective == <<<<1, 0, 0, 0>>, <<0, 1, 0, 0>>, <<0, 0, 1, 0>>, <<0, 0, 0, 2>>>>
\* not invertible
Singular == <<<<1, 0, 0, 0>>, <<0, 1, 0, 0>>, <<0, 0, 0, 0>>, <<0, 0, 0, 1>>>>
Matrices == {new_identity, Translation, Rotation, Projective, Singular}

IsAffine(m) == m[4] = <<0, 0, 0, 1>>

(***************************************************************************)
(* ScanPosition of scan_position.rs.                                       *)
(***************************************************************************)
ScanPosition_new ==
    [name |-> "", pop |-> new_identity, scans |-> EmptyMap, sop |-> new_identity]

set_name(self, name) == [self EXCEPT !.name = name]
\* a setter that stores the SOP in the POP
set_sop_into_pop(self, sop) == [self EXCEPT !.pop = sop]
set_sop(self, sop) == [self EXCEPT !.sop = sop]
set_pop(self, pop_) == [self EXCEPT !.pop = pop_]
add_scan(self, scan) == [self EXCEPT !.scans = insert(self.scans, scan.name, scan)]
scan(self, name) == get(self.scans, name)

\* the product taken in the other order: POP first, SOP second
socs_to_glcs_pop_first(self, point) ==
    with(MatMul(self.sop, self.pop), LAMBDA m :
        with(MatVec(m, <<point[1], point[2], point[3], 1>>), LAMBDA glcs :
            <<glcs[1], glcs[2], glcs[3]>>))
\* the point taken as a direction, w = 0
socs_to_glcs_direction(self, point) ==
    with(MatMul(self.pop, self.sop), LAMBDA m :
        with(MatVec(m, <<point[1], point[2], point[3], 0>>), LAMBDA glcs :
            <<glcs[1], glcs[2], glcs[3]>>))

\* self.pop * self.sop * Vector::new(x, y, z, 1.), then (glcs.x, glcs.y, glcs.z)
socs_to_glcs(self, point) ==
    with(MatMul(self.pop, self.sop), LAMBDA m :
        with(MatVec(m, <<point[1], point[2], point[3], 1>>), LAMBDA glcs :
            <<glcs[1], glcs[2], glcs[3]>>))

(***************************************************************************)
(* RigidTransform and FrameGraph of spec.md 4.1 and 4.3: compose, invert,  *)
(* apply and global_to_scan_local have no code in the crate.               *)
(***************************************************************************)
Skip(k, n) == IF k < n THEN k ELSE k + 1
Det3(m) ==
    m[1][1] * (m[2][2] * m[3][3] - m[2][3] * m[3][2])
      - m[1][2] * (m[2][1] * m[3][3] - m[2][3] * m[3][1])
      + m[1][3] * (m[2][1] * m[3][2] - m[2][2] * m[3][1])
Sub(m, i, j, r) == <<m[Skip(r, i)][Skip(1, j)], m[Skip(r, i)][Skip(2, j)], m[Skip(r, i)][Skip(3, j)]>>
Minor(m, i, j) == with(<<Sub(m, i, j, 1), Sub(m, i, j, 2), Sub(m, i, j, 3)>>, Det3)
Sign(i, j) == IF (i + j) % 2 = 0 THEN 1 ELSE -1
Det(m) ==
    Minor(m, 1, 1) * m[1][1] - Minor(m, 1, 2) * m[1][2]
      + Minor(m, 1, 3) * m[1][3] - Minor(m, 1, 4) * m[1][4]

\* compose(a, b) applies b, then a
compose(a, b) == MatMul(a, b)

\* invert fails on a singular transform.  The result is the inverse times the
\* positive number |det|, a factor the normalization by w of apply cancels.
Cofactors(a, s, i) ==
    <<s * Sign(i, 1) * Minor(a, 1, i), s * Sign(i, 2) * Minor(a, 2, i),
      s * Sign(i, 3) * Minor(a, 3, i), s * Sign(i, 4) * Minor(a, 4, i)>>
invert(a) ==
    with(Det(a), LAMBDA det :
        IF det = 0 THEN Err([kind |-> "ConfigurationInvalid"])
        ELSE with(IF det < 0 THEN -1 ELSE 1, LAMBDA s :
                Ok(<<Cofactors(a, s, 1), Cofactors(a, s, 2),
                     Cofactors(a, s, 3), Cofactors(a, s, 4)>>)))

\* apply before the normalization: the homogeneous vector, w made positive
homogeneous(a, point) ==
    with(MatVec(a, <<point[1], point[2], point[3], 1>>), LAMBDA h :
        IF h[4] < 0 THEN <<0 - h[1], 0 - h[2], 0 - h[3], 0 - h[4]>> ELSE h)

\* `result` is apply(a, point): the homogeneous vector divided by its w
IsApply(result, a, point) ==
    with(homogeneous(a, point), LAMBDA h :
        h[4] # 0 /\ \A i \in 1..3 : result[i] * h[4] = h[i])

\* apply(a, point), where the division by w is exact
HasApply(a, point) ==
    with(homogeneous(a, point), LAMBDA h :
        h[4] # 0 /\ \A i \in 1..3 : h[i] % h[4] = 0)
apply(a, point) ==
    with(homogeneous(a, point), LAMBDA h :
        <<h[1] \div h[4], h[2] \div h[4], h[3] \div h[4]>>)

\* 4.3 as written: inverse(project_transform) o inverse(scan_position_transform)
global_to_scan_local_transform(self) ==
    with(invert(self.pop).val, LAMBDA p : with(invert(self.sop).val, LAMBDA s : compose(p, s)))
\* the inverse of the forward chain project_transform o scan_position_transform
inverse_chain_transform(self) ==
    with(invert(self.pop).val, LAMBDA p : with(invert(self.sop).val, LAMBDA s : compose(s, p)))

(***************************************************************************)
(* The environment: project files and directory trees.                     *)
(***************************************************************************)
ImageElement(name) ==
    Element("scanposimage", NoText, <<TextElement("name", name)>>)
\* an image whose name element holds no text
UnnamedImage ==
    Element("scanposimage", NoText, <<Element("name", NoText, <<>>)>>)
ImagesElement(images) == Element("scanposimages", NoText, images)
ScanPositionElement(children) == Element("scanposition", NoText, children)

ScanPositionElements ==
    { ScanPositionElement(<<TextElement("name", "SP01"),
                            ImagesElement(<<ImageElement("Image001"),
                                            ImageElement("Image002")>>)>>),
      ScanPositionElement(<<ImagesElement(<<ImageElement("Image002")>>),
                            TextElement("name", "SP01")>>),
      ScanPositionElement(<<TextElement("name", "SP02"), ImagesElement(<<>>)>>),
      \* no name
      ScanPositionElement(<<ImagesElement(<<ImageElement("Image001")>>)>>),
      \* no scanposimages
      ScanPositionElement(<<TextElement("name", "SP02")>>),
      \* an image without a name
      ScanPositionElement(<<TextElement("name", "SP01"),
                            ImagesElement(<<ImageElement("Image001"), UnnamedImage>>)>>) }

ProjectElement(children) == Element("project", NoText, children)
Documents ==
    { ProjectElement(<<Element("scanpositions", NoText, sps)>>) :
        sps \in UNION {[1..n -> ScanPositionElements] : n \in 0..MaxScanPositions} }
    \cup {ProjectElement(<<>>)}

\* the project file of a project nested in a scan directory
NestedDocument ==
    ProjectElement(<<Element("scanpositions", NoText,
        <<ScanPositionElement(<<TextElement("name", "SP02"), ImagesElement(<<>>)>>)>>)>>)
DefaultDocument ==
    ProjectElement(<<Element("scanpositions", NoText,
        <<ScanPositionElement(<<TextElement("name", "SP01"),
                                ImagesElement(<<ImageElement("Image001"),
                                                ImageElement("Image002")>>)>>),
          ScanPositionElement(<<TextElement("name", "SP02"), ImagesElement(<<>>)>>)>>)>>)

Root == <<>>
ProjectDir == <<"project.RiSCAN">>
RspPath == <<"project.RiSCAN", "project.rsp">>
RspInDir == <<"project.RiSCAN", "project.rsp", "project.rsp">>
ScansDir == <<"project.RiSCAN", "SCANS">>
SP01Dir == <<"project.RiSCAN", "SCANS", "SP01">>
SP02Dir == <<"project.RiSCAN", "SCANS", "SP02">>
SP03Dir == <<"project.RiSCAN", "SCANS", "SP03">>
ScanFile == <<"project.RiSCAN", "SCANS", "SP01", "scan.rxp">>
NestedRsp == <<"project.RiSCAN", "SCANS", "SP01", "project.rsp">>
OtherDir == <<"project.RiSCAN", "other">>
Dotted == <<"project.RiSCAN", ".", "SCANS", "SP02">>
Missing == <<"notaproject">>

Absent == [kind |-> "absent"]
\* what RspPath is: a project file, another file, a directory, or nothing
MainChoices == {XmlFile(d) : d \in Documents} \cup {OtherFile, Dir, Absent}

FileSystem(main, nested) ==
    LET paths == {Root, ProjectDir, ScansDir, SP01Dir, SP02Dir, SP03Dir, OtherDir, ScanFile}
                   \cup (IF main = Absent THEN {} ELSE {RspPath})
                   \cup (IF main = Dir THEN {RspInDir} ELSE {})
                   \cup (IF nested THEN {NestedRsp} ELSE {})
    IN  [p \in paths |->
            IF p = RspPath THEN main
            ELSE IF p \in {RspInDir, NestedRsp} THEN XmlFile(NestedDocument)
            ELSE IF p = ScanFile THEN OtherFile
            ELSE Dir]

FileSystems == {FileSystem(main, nested) : main \in MainChoices, nested \in BOOLEAN}
DefaultFileSystem == FileSystem(XmlFile(DefaultDocument), FALSE)

InputPaths ==
    {Root, ProjectDir, ScansDir, SP01Dir, SP02Dir, SP03Dir, OtherDir, ScanFile,
     RspPath, RspInDir, NestedRsp, Dotted, Missing}
ScanPositionNames == {"SP01", "SP02", "SP03"}
ImageNames == {"Image001", "Image002", "Image003"}
CameraPoints == (-MaxCam..MaxCam) \X (-MaxCam..MaxCam) \X (-MaxCam..MaxCam)
Points ==
    {p \in (0..MaxNorm) \X (0..MaxNorm) \X (0..MaxNorm) : p[1] + p[2] + p[3] <= MaxNorm}
Scan(name, content) == [name |-> name, content |-> content]
Scans == {Scan("scan1", "a"), Scan("scan1", "b"), Scan("scan2", "a")}

(***************************************************************************)
(* The state after construction: no project is loaded, no call is under    *)
(* way, and the caller owns ScanPosition::new().                           *)
(***************************************************************************)
NoArg == [none |-> TRUE]
Pending == [pending |-> TRUE]

Init ==
    /\ fs \in FileSystems
    /\ project = None
    /\ op = "ScanPosition::new"
    /\ arg = NoArg
    /\ ret = NoArg
    /\ pc = "idle"
    /\ fullpath = <<>>
    /\ path_buf = <<>>
    /\ sp = ScanPosition_new

(***************************************************************************)
(* The operations of project.rs.                                           *)
(***************************************************************************)
ProjectFromPath(path) ==
    /\ pc = "idle"
    /\ op' = "Project::from_path"
    /\ arg' = [path |-> path]
    /\ \E r \in {Project_from_path(fs, path)} :
           /\ ret' = r
           /\ project' = IF r.ok THEN Some(r.val) ELSE project
    /\ UNCHANGED <<fs, pc, fullpath, path_buf, sp>>

ProjectScanPosition(name) ==
    /\ pc = "idle"
    /\ project.some
    /\ op' = "Project::scan_position"
    /\ arg' = [name |-> name]
    /\ ret' = Project_scan_position(project.val, name)
    /\ UNCHANGED <<fs, project, pc, fullpath, path_buf, sp>>

ProjectImage(scan_position, image) ==
    /\ pc = "idle"
    /\ project.some
    /\ op' = "Project::image"
    /\ arg' = [scan_position |-> scan_position, image |-> image]
    /\ ret' = Project_image(project.val, scan_position, image)
    /\ UNCHANGED <<fs, project, pc, fullpath, path_buf, sp>>

\* scan_position.color(x, y, z) on a scan position of the project
ScanPositionColor(name, point) ==
    /\ pc = "idle"
    /\ project.some
    /\ \E found \in {Project_scan_position(project.val, name)} :
           /\ found.some
           /\ ret' = ScanPosition_color(found.val, point[1], point[2], point[3])
    /\ op' = "ScanPosition::color"
    /\ arg' = [scan_position |-> name, point |-> point]
    /\ UNCHANGED <<fs, project, pc, fullpath, path_buf, sp>>

\* image.color(x, y, z) on an image of the project
ImageColor(scan_position, image, point) ==
    /\ pc = "idle"
    /\ project.some
    /\ \E found \in {Project_image(project.val, scan_position, image)} :
           /\ found.some
           /\ ret' = Image_color(found.val, point[1], point[2], point[3])
    /\ op' = "Image::color"
    /\ arg' = [scan_position |-> scan_position, image |-> image, point |-> point]
    /\ UNCHANGED <<fs, project, pc, fullpath, path_buf, sp>>

(***************************************************************************)
(* ScanPosition::from_path: the call, up to the loop, and one iteration.   *)
(***************************************************************************)
ScanPositionFromPath(path) ==
    /\ pc = "idle"
    /\ op' = "ScanPosition::from_path"
    /\ arg' = [path |-> path]
    /\ \E full \in {canonicalize(fs, path)} :
           IF full.ok
           THEN /\ fullpath' = full.val
                /\ path_buf' = full.val
                /\ pc' = "loop"
                /\ ret' = Pending
           ELSE /\ ret' = full
                /\ UNCHANGED <<pc, fullpath, path_buf>>
    /\ UNCHANGED <<fs, project, sp>>

FromPathIteration ==
    /\ pc = "loop"
    /\ \E step \in {from_path_iteration(fs, arg.path, fullpath, path_buf)} :
           IF step.returns
           THEN /\ ret' = step.ret
                /\ pc' = "idle"
                /\ fullpath' = <<>>
                /\ path_buf' = <<>>
           ELSE /\ path_buf' = step.path_buf
                /\ UNCHANGED <<ret, pc, fullpath>>
    /\ UNCHANGED <<fs, project, op, arg, sp>>

(***************************************************************************)
(* The operations of scan_position.rs on the caller's scan position.       *)
(***************************************************************************)
SetName(name) ==
    /\ pc = "idle"
    /\ op' = "set_name"
    /\ arg' = [name |-> name]
    /\ ret' = NoArg
    /\ sp' = set_name(sp, name)
    /\ UNCHANGED <<fs, project, pc, fullpath, path_buf>>

SetSop(m) ==
    /\ pc = "idle"
    /\ op' = "set_sop"
    /\ arg' = [sop |-> m]
    /\ ret' = NoArg
    /\ sp' = set_sop(sp, m)
    /\ UNCHANGED <<fs, project, pc, fullpath, path_buf>>

SetPop(m) ==
    /\ pc = "idle"
    /\ op' = "set_pop"
    /\ arg' = [pop |-> m]
    /\ ret' = NoArg
    /\ sp' = set_pop(sp, m)
    /\ UNCHANGED <<fs, project, pc, fullpath, path_buf>>

AddScan(s) ==
    /\ pc = "idle"
    /\ op' = "add_scan"
    /\ arg' = [scan |-> s]
    /\ ret' = NoArg
    /\ sp' = add_scan(sp, s)
    /\ UNCHANGED <<fs, project, pc, fullpath, path_buf>>

\* the accessors name(), sop() and pop()
Accessor(field) ==
    /\ pc = "idle"
    /\ op' = field
    /\ arg' = NoArg
    /\ ret' = sp[field]
    /\ UNCHANGED <<fs, project, pc, fullpath, path_buf, sp>>

ScanQuery(name) ==
    /\ pc = "idle"
    /\ op' = "scan"
    /\ arg' = [name |-> name]
    /\ ret' = scan(sp, name)
    /\ UNCHANGED <<fs, project, pc, fullpath, path_buf, sp>>

SocsToGlcs(point) ==
    /\ pc = "idle"
    /\ op' = "socs_to_glcs"
    /\ arg' = [point |-> point]
    /\ ret' = socs_to_glcs(sp, point)
    /\ UNCHANGED <<fs, project, pc, fullpath, path_buf, sp>>

\* A caller's round trip: a global point is taken to the scanner's frame by the
\* transform `order` names ("spec": 4.3 as written, "inverse": the inverse of
\* the forward chain), and socs_to_glcs takes the result back.
RoundTrip(order) ==
    /\ pc = "idle"
    /\ invert(sp.pop).ok /\ invert(sp.sop).ok
    /\ \E t \in {IF order = "spec" THEN global_to_scan_local_transform(sp)
                 ELSE inverse_chain_transform(sp)} :
         \E point \in Points :
           /\ HasApply(t, point)
           /\ \E socs \in {apply(t, point)} :
                 /\ op' = "round_trip"
                 /\ arg' = [point |-> point, order |-> order, socs |-> socs]
                 /\ ret' = socs_to_glcs(sp, socs)
    /\ UNCHANGED <<fs, project, pc, fullpath, path_buf, sp>>

(***************************************************************************)
(* Specifications.                                                         *)
(***************************************************************************)
NextProject ==
    \/ \E path \in InputPaths : ProjectFromPath(path)
    \/ \E name \in ScanPositionNames : ProjectScanPosition(name)
    \/ \E name \in ScanPositionNames, image \in ImageNames : ProjectImage(name, image)
    \/ \E path \in InputPaths : ScanPositionFromPath(path)
    \/ FromPathIteration

NextImage ==
    \/ \E path \in InputPaths : ProjectFromPath(path)
    \/ \E name \in ScanPositionNames, point \in CameraPoints : ScanPositionColor(name, point)
    \/ \E name \in ScanPositionNames, image \in ImageNames, point \in CameraPoints :
          ImageColor(name, image, point)

NextFromPath ==
    \/ \E path \in InputPaths : ScanPositionFromPath(path)
    \/ FromPathIteration

NextGeom ==
    \/ \E name \in {"New name"} : SetName(name)
    \/ \E m \in Matrices : SetSop(m)
    \/ \E m \in Matrices : SetPop(m)
    \/ \E s \in Scans : AddScan(s)
    \/ \E field \in {"name", "sop", "pop"} : Accessor(field)
    \/ \E name \in {"scan1", "scan2"} : ScanQuery(name)
    \/ \E point \in Points : SocsToGlcs(point)

\* a caller that takes a global point to the scanner's frame and back
NextRoundTrip ==
    \/ \E m \in Matrices : SetSop(m)
    \/ \E m \in Matrices : SetPop(m)
    \/ \E order \in {"spec", "inverse"} : RoundTrip(order)

Next == NextProject \/ NextImage \/ NextGeom \/ NextRoundTrip

\* the whole crate
Spec == Init /\ [][Next]_vars
\* loading and querying a project, and ScanPosition::from_path, over every
\* file system
SpecProject == Init /\ [][NextProject]_vars
\* ScanPosition::from_path alone; an iteration of a running loop is taken
SpecFromPath == Init /\ [][NextFromPath]_vars /\ WF_vars(FromPathIteration)
\* one file system: the project of the crate's tests
InitDefault == Init /\ fs = DefaultFileSystem
\* the colour lookups of project.rs on the loaded project
SpecImage == InitDefault /\ [][NextImage]_vars
\* the scan position of scan_position.rs
SpecGeom == InitDefault /\ [][NextGeom]_vars
\* the round trip through socs_to_glcs, over every SOP and POP
SpecRoundTrip == InitDefault /\ [][NextRoundTrip]_vars
\* the operations that fill the maps, over every file system
NextKeys ==
    \/ \E path \in InputPaths : ProjectFromPath(path)
    \/ \E s \in Scans : AddScan(s)
SpecKeys == Init /\ [][NextKeys]_vars

(***************************************************************************)
(* What the properties below say about a project file, read off the        *)
(* document itself and not through the loader.                             *)
(***************************************************************************)
HasChild(element, tag) == \E i \in 1..Len(element.children) : element.children[i].name = tag
FirstChild(element, tag) ==
    element.children[CHOOSE i \in 1..Len(element.children) :
        /\ element.children[i].name = tag
        /\ \A j \in 1..(i - 1) : element.children[j].name # tag]
\* the element has a name child that holds text
HasName(element) == HasChild(element, "name") /\ FirstChild(element, "name").text.some
NameOf(element) == FirstChild(element, "name").text.val
ScanPositionsOf(root) == FirstChild(root, "scanpositions").children
ImagesOf(element) == FirstChild(element, "scanposimages").children
Range(seq) == {seq[i] : i \in 1..Len(seq)}

\* every scan position has a name and an image list, every image a name
WellFormed(root) ==
    /\ HasChild(root, "scanpositions")
    /\ \A e \in Range(ScanPositionsOf(root)) :
          /\ HasName(e)
          /\ HasChild(e, "scanposimages")
          /\ \A img \in Range(ImagesOf(e)) : HasName(img)

\* the last scan position element of that name: the one the map keeps
LastNamed(root, name) ==
    LET sps == ScanPositionsOf(root)
    IN  sps[CHOOSE i \in 1..Len(sps) :
                /\ NameOf(sps[i]) = name
                /\ \A j \in (i + 1)..Len(sps) : NameOf(sps[j]) # name]

\* the images of a scan position in the order they were loaded
LoadOrder(root, name) ==
    LET images == ImagesOf(LastNamed(root, name))
    IN  [i \in 1..Len(images) |-> [name |-> NameOf(images[i])]]

\* the file Project::from_path reads for `path`
ProjectFile(files, path) ==
    IF files[resolve(path)].kind = "dir" THEN push(resolve(path), "project.rsp")
    ELSE resolve(path)
IsFile(files, path) == path \in DOMAIN files /\ files[path].kind = "file"
\* the documents the loaded project can have been read from
SourcesOf(files, proj) ==
    {path \in DOMAIN files : Project_from_path(files, path) = Ok(proj)}

(***************************************************************************)
(* C1.  ScanPosition::color is first-hit in load order: its result is the  *)
(* colour of the first image, in the order the images were loaded, whose   *)
(* own lookup for the point succeeds, and none when no image succeeds.     *)
(***************************************************************************)
RECURSIVE FirstHit(_, _)
FirstHit(images, point) ==
    IF images = <<>> THEN None
    ELSE LET color == Image_color(Head(images), point[1], point[2], point[3]).color
         IN  IF color.some THEN color ELSE FirstHit(Tail(images), point)

C1_FirstHitInLoadOrder ==
    (op = "ScanPosition::color") =>
        \A path \in SourcesOf(fs, project.val) :
            /\ ~IsPanic(ret)
            /\ ret = FirstHit(LoadOrder(fs[ProjectFile(fs, path)].root, arg.scan_position),
                              arg.point)

(***************************************************************************)
(* C2.  A pixel returned by the projection of a camera-local point lies in *)
(* the raster, 0 <= u < width and 0 <= v < height, and the point has       *)
(* z > 0; a point with z <= 0, or whose computed pixel is outside the      *)
(* raster, gives none.  This is the pixel Image::color obtains.            *)
(***************************************************************************)
\* the fraction f is in [0, n)
InRange(f, n) == f[2] > 0 /\ 0 <= f[1] /\ f[1] < n * f[2]
C2_Camera == camera_model([name |-> arg.image])

C5_Loaded == {project.val.scan_positions[k].name : k \in DOMAIN project.val.scan_positions}
C5_Found(name) ==
    CHOOSE s \in {project.val.scan_positions[k] : k \in DOMAIN project.val.scan_positions} :
        s.name = name

C5_Lookup ==
    /\ (op = "Project::scan_position") =>
          /\ ~IsPanic(ret)
          /\ ret.some <=> arg.name \in C5_Loaded
          /\ ret.some => ret.val.name = arg.name
    /\ (op = "Project::image") =>
          /\ ~IsPanic(ret)
          /\ arg.scan_position \notin C5_Loaded => ret = None
          /\ ret.some => /\ arg.scan_position \in C5_Loaded
                         /\ ret.val.name = arg.image
                         /\ ret.val \in {C5_Found(arg.scan_position).images[k] :
                                            k \in DOMAIN C5_Found(arg.scan_position).images}

\* the claim as made: the result of Project::image tells "scan position not
\* found" (None) from "found, but no image of that name"
C5_Original ==
    /\ C5_Lookup
    /\ (/\ op = "Project::image"
        /\ arg.scan_position \in C5_Loaded
        /\ arg.image \notin DOMAIN C5_Found(arg.scan_position).images)
          => ret # None

\* amended: Project::image gives None in both cases
C5_NotFound ==
    /\ C5_Lookup
    /\ (/\ op = "Project::image"
        /\ arg.scan_position \in C5_Loaded
        /\ arg.image \notin {C5_Found(arg.scan_position).images[k].name :
                                k \in DOMAIN C5_Found(arg.scan_position).images})
          => ret = None

\* a scan position that is found, asked for an image it does not have
C5_Witness ==
    /\ op = "Project::image"
    /\ arg.scan_position \in C5_Loaded
    /\ arg.image \notin DOMAIN C5_Found(arg.scan_position).images
    /\ C5_Found(arg.scan_position).images # EmptyMap
    /\ ret = None

(***************************************************************************)
(* C7.  Project::from_path takes the project directory or its project.rsp  *)
(* file with the same result: for a directory d that holds a file          *)
(* project.rsp, from_path(d) and from_path(d/project.rsp) are equal.       *)
(***************************************************************************)
C7_EitherForm ==
    (op = "Project::from_path") =>
        /\ (/\ resolve(arg.path) \in DOMAIN fs
            /\ fs[resolve(arg.path)].kind = "dir"
            /\ IsFile(fs, push(resolve(arg.path), "project.rsp")))
              => ret = Project_from_path(fs, push(arg.path, "project.rsp"))
        /\ (/\ IsFile(fs, resolve(arg.path))
            /\ arg.path # <<>>
            /\ arg.path[Len(arg.path)] = "project.rsp")
              => ret = Project_from_path(fs, pop(arg.path).path)

\* the directory form gave a project with scan positions
C7_Witness ==
    /\ op = "Project::from_path"
    /\ arg.path = ProjectDir
    /\ ret.ok
    /\ DOMAIN ret.val.scan_positions = {"SP01", "SP02"}

(***************************************************************************)
(* C8.  Project::from_path is all-or-nothing: it is Err, with no Project,  *)
(* when the path does not exist, the file cannot be opened or parsed, the  *)
(* scanpositions element is missing, or a scan position or an image lacks  *)
(* a required field; it is Ok only with every scan position and every      *)
(* image of the file loaded.                                               *)
(***************************************************************************)
C8_Loadable(path) ==
    /\ resolve(path) \in DOMAIN fs
    /\ IsFile(fs, ProjectFile(fs, path))
    /\ fs[ProjectFile(fs, path)].parses
    /\ WellFormed(fs[ProjectFile(fs, path)].root)

C8_AllOrNothing ==
    (op = "Project::from_path") =>
        /\ ret.ok <=> C8_Loadable(arg.path)
        /\ ~ret.ok => "val" \notin DOMAIN ret
        /\ ret.ok =>
              LET root == fs[ProjectFile(fs, arg.path)].root
                  loaded == ret.val.scan_positions
              IN  /\ DOMAIN loaded = {NameOf(e) : e \in Range(ScanPositionsOf(root))}
                  /\ \A e \in Range(ScanPositionsOf(root)) :
                        \E k \in DOMAIN loaded :
                            /\ loaded[k].name = NameOf(e)
                            /\ DOMAIN loaded[k].images =
                                  {NameOf(img) : img \in Range(ImagesOf(LastNamed(root, NameOf(e))))}
                  /\ project = Some(ret.val)

\* a file with two scan positions, one of them with two images, was loaded
C8_Witness ==
    /\ op = "Project::from_path"
    /\ ret.ok
    /\ Cardinality(DOMAIN ret.val.scan_positions) = 2
    /\ \E k \in DOMAIN ret.val.scan_positions :
          Cardinality(DOMAIN ret.val.scan_positions[k].images) = 2

(***************************************************************************)
(* C3.  socs_to_glcs returns apply(POP o SOP, point): the point gets       *)
(* w = 1, SOP is applied first and POP second, and the result is divided   *)
(* by the resulting w; the origin goes to the scan position's origin in    *)
(* the global frame, and ScanPosition::new() maps every point to itself.   *)
(***************************************************************************)
\* SOP applied to the point, then POP applied to the result
C3_Chain == MatVec(sp.pop, MatVec(sp.sop, <<arg.point[1], arg.point[2], arg.point[3], 1>>))

\* the claim as made: the result is the chain's vector divided by its w
C3_Original ==
    (op = "socs_to_glcs") => \A i \in 1..3 : ret[i] * C3_Chain[4] = C3_Chain[i]

\* amended: no division by w, which is 1 when SOP and POP are affine
C3_Forward ==
    (op = "socs_to_glcs") =>
        /\ ret = <<C3_Chain[1], C3_Chain[2], C3_Chain[3]>>
        /\ (IsAffine(sp.pop) /\ IsAffine(sp.sop)) =>
              /\ C3_Chain[4] = 1
              /\ IsApply(ret, compose(sp.pop, sp.sop), arg.point)
        /\ arg.point = <<0, 0, 0>> =>
              \A i \in 1..3 : ret[i] = Dot(sp.pop[i], Column(sp.sop, 4))
        /\ sp = ScanPosition_new => ret = arg.point

\* a point away from the origin went through a translation, then a rotation
C3_Witness ==
    /\ op = "socs_to_glcs"
    /\ sp.sop = Translation
    /\ sp.pop = Rotation
    /\ arg.point = <<1, 0, 1>>
    /\ ret = <<-2, 2, 4>>

(***************************************************************************)
(* C4.  Round trip: with invertible POP and SOP, a global point taken to   *)
(* the scanner's frame by inverse(POP) o inverse(SOP), and back by         *)
(* socs_to_glcs, is the point again.                                       *)
(***************************************************************************)
C4_Original ==
    (op = "round_trip" /\ arg.order = "spec") => ret = arg.point

\* amended: the transform is inverse(SOP) o inverse(POP), and both are affine
C4_RoundTrip ==
    (/\ op = "round_trip"
     /\ arg.order = "inverse"
     /\ IsAffine(sp.pop)
     /\ IsAffine(sp.sop)) => ret = arg.point

\* a round trip through two transforms that do not commute
C4_Witness ==
    /\ op = "round_trip"
    /\ arg.order = "inverse"
    /\ sp.pop = Translation
    /\ sp.sop = Rotation
    /\ arg.point = <<1, 1, 0>>
    /\ arg.socs # arg.point
    /\ ret = arg.point

C6_Step ==
    /\ op' = "set_name" => sp' = [sp EXCEPT !.name = arg'.name]
    /\ op' = "set_sop" => sp' = [sp EXCEPT !.sop = arg'.sop]
    /\ op' = "set_pop" => sp' = [sp EXCEPT !.pop = arg'.pop]
    /\ op' = "add_scan" =>
          /\ sp'.name = sp.name /\ sp'.sop = sp.sop /\ sp'.pop = sp.pop
          /\ sp'.scans[arg'.scan.name] = arg'.scan
          /\ \A k \in DOMAIN sp.scans \ {arg'.scan.name} : sp'.scans[k] = sp.scans[k]
          /\ DOMAIN sp'.scans = DOMAIN sp.scans \cup {arg'.scan.name}
    /\ op' \in {"name", "sop", "pop", "scan", "socs_to_glcs"} => sp' = sp
    /\ (/\ op = "socs_to_glcs" /\ op' = "socs_to_glcs"
        /\ sp'.sop = sp.sop /\ sp'.pop = sp.pop /\ arg' = arg) => ret' = ret
C9_Opened(full) ==
    {n \in 0..Len(full) : Project_from_path(fs, SubSeq(full, 1, n)).ok}
C9_Expected(path) ==
    LET full == resolve(path)
        opened == C9_Opened(full)
        n == CHOOSE m \in opened : \A k \in opened : k <= m
        deepest == SubSeq(full, 1, n)
        dir == IF fs[deepest].kind = "dir" THEN deepest ELSE SubSeq(full, 1, n - 1)
        scans == dir \o <<"SCANS">>
        proj == Project_from_path(fs, deepest).val
        under == /\ Len(scans) < Len(full)
                 /\ SubSeq(full, 1, Len(scans)) = scans
        named == {proj.scan_positions[k] : k \in DOMAIN proj.scan_positions}
    IN  IF opened = {} THEN Err([kind |-> "NotAProject", path |-> path])
        ELSE IF under /\ \E s \in named : s.name = full[Len(scans) + 1]
        THEN Ok(CHOOSE s \in named : s.name = full[Len(scans) + 1])
        ELSE Err([kind |-> "NotAScanPosition", path |-> path])

C9_Result ==
    (op = "ScanPosition::from_path" /\ pc = "idle") =>
        IF resolve(arg.path) \in DOMAIN fs THEN ret = C9_Expected(arg.path)
        ELSE ret = Err([kind |-> "Io"])
C9_Candidate ==
    (pc = "loop") =>
        /\ fullpath = resolve(arg.path)
        /\ Len(path_buf) <= Len(fullpath)
        /\ path_buf = SubSeq(fullpath, 1, Len(path_buf))
        /\ \A n \in (Len(path_buf) + 1)..Len(fullpath) : n \notin C9_Opened(fullpath)
C9_Shortens == (pc = "loop" /\ pc' = "loop") => Len(path_buf') < Len(path_buf)

C9_FromPath ==
    /\ [](C9_Result /\ C9_Candidate)
    /\ [][C9_Shortens]_vars
    /\ (pc = "loop") ~> (pc = "idle")

\* the file of a scan was given: the fourth candidate is the project
C9_Witness ==
    /\ op = "ScanPosition::from_path"
    /\ pc = "idle"
    /\ arg.path = ScanFile
    /\ NestedRsp \notin DOMAIN fs
    /\ ret.ok
    /\ ret.val.name = "SP01"

(***************************************************************************)
(* C10.  Names are the keys: every key of a project's scan position map,   *)
(* of a scan position's image map and of the scan map filled by add_scan   *)
(* is the name of the value under it, and of the elements or scans of one  *)
(* name the map holds the one supplied last.                               *)
(***************************************************************************)
C10_NamesAreKeys ==
    /\ project.some =>
          \A k \in DOMAIN project.val.scan_positions :
              /\ project.val.scan_positions[k].name = k
              /\ \A j \in DOMAIN project.val.scan_positions[k].images :
                    project.val.scan_positions[k].images[j].name = j
    /\ \A k \in DOMAIN sp.scans : sp.scans[k].name = k
    /\ (op = "add_scan") => sp.scans[arg.scan.name] = arg.scan
    /\ (op = "Project::from_path" /\ ret.ok) =>
          LET root == fs[ProjectFile(fs, arg.path)].root
          IN  \A e \in Range(ScanPositionsOf(root)) :
                  DOMAIN ret.val.scan_positions[NameOf(e)].images =
                      {NameOf(img) : img \in Range(ImagesOf(LastNamed(root, NameOf(e))))}

\* two scan position elements of one name were loaded, and a scan was added
\* over a scan of its name
C10_Witness ==
    /\ op = "add_scan"
    /\ arg.scan = Scan("scan1", "b")
    /\ DOMAIN sp.scans = {"scan1", "scan2"}
    /\ project.some
    /\ DOMAIN project.val.scan_positions = {"SP01"}
    /\ DOMAIN project.val.scan_positions["SP01"].images = {"Image002"}
    /\ IsFile(fs, RspPath) /\ fs[RspPath].parses
    /\ Len(ScanPositionsOf(fs[RspPath].root)) = 2
    /\ NestedRsp \notin DOMAIN fs

====
